---- MODULE Spec2Model ----
(***************************************************************************)
(* Model of simple-bank's money-transfer core: Store.execTx and            *)
(* Store.TransferTx (package db) running as concurrent calls against one   *)
(* PostgreSQL database, and the createTransfer HTTP handler (package api)  *)
(* that calls TransferTx.                                                  *)
(*                                                                         *)
(* Every SQL statement a call issues is one atomic step; calls interleave  *)
(* between statements.  A transaction's writes are kept in tx[p] until     *)
(* Commit applies them to the committed tables in one step; row locks are  *)
(* held in lock[id] until the transaction ends.                            *)
(***************************************************************************)
EXTENDS Integers, Sequences, FiniteSets, TLC

\* Number of concurrent TransferTx calls (goroutines / requests).
NumCalls == 2

\* Number of concurrent calls in the same-direction and alternating scenarios
\* (n in TestTransferTx / TestTransferTxDeadlock).
NumTestCalls == 3

\* Number of concurrent HTTP requests to POST /transfers.
NumRequests == 2

\* Number of pairs of opposite transfers in the alternating scenario.
NumPairs == 2

\* Number of concurrent calls in the scenario on two disjoint account pairs.
NumPairCalls == 3

VARIABLES
    accounts,   \* committed accounts table: id -> Account row
    transfers,  \* committed transfers table: set of Transfer rows
    entries,    \* committed entries table: set of Entry rows
    lock,       \* row lock on accounts: id -> holding call, 0 when free
    pc,         \* position of each call
    arg,        \* TransferTxParams of each call
    ctxDone,    \* the call's context is cancelled / timed out
    tx,         \* the call's sql.Tx: state and uncommitted writes
    orig,       \* locals originalFromAccount / originalToAccount
    result,     \* the captured TransferTxResult
    cbErr,      \* error returned by the callback
    rbErr,      \* error returned by tx.Rollback()
    err,        \* error returned by execTx / TransferTx
    req,        \* createTransferRequest of each HTTP request
    status,     \* HTTP status the handler responded with, 0 when none
    calls       \* the calls each call / request made so far, in order

vars == <<accounts, transfers, entries, lock, pc, arg, ctxDone, tx,
          orig, result, cbErr, rbErr, err, req, status, calls>>

\* The state of the HTTP handler around a TransferTx call.
apiVars == <<req, status>>

----------------------------------------------------------------------------
\* Errors.  An error is the sequence of the fragments of its message; the nil
\* error is the empty sequence.  Comparing with a sentinel (err == sql.ErrNoRows)
\* is equality with the one-fragment sequence.

NoErr       == << >>
ErrNoRows   == <<"sql: no rows in result set">>
ErrTxDone   == <<"sql: transaction has already been committed or rolled back">>
ErrCanceled == <<"context canceled">>
ErrConnDone == <<"sql: connection is already closed">>
ErrDeadlock == <<"pq: deadlock detected">>

\* e's message occurs inside m's message.
Contains(m, e) ==
    /\ e # NoErr
    /\ \E i \in 1..Len(m) :
          /\ i + Len(e) - 1 <= Len(m)
          /\ SubSeq(m, i, i + Len(e) - 1) = e

----------------------------------------------------------------------------
\* Rows.

ZeroAccount  == [ID |-> 0, Owner |-> "", Balance |-> 0, Currency |-> ""]
ZeroTransfer == [ID |-> 0, FromAccountID |-> 0, ToAccountID |-> 0, Amount |-> 0]
ZeroEntry    == [ID |-> 0, AccountID |-> 0, Amount |-> 0]

ZeroRequest ==
    [FromAccountID |-> 0, ToAccountID |-> 0, Amount |-> 0, Currency |-> ""]

ZeroArg == [FromAccountID |-> 0, ToAccountID |-> 0, Amount |-> 0]

ZeroResult ==
    [Transfer |-> ZeroTransfer, FromAccount |-> ZeroAccount,
     ToAccount |-> ZeroAccount, FromEntry |-> ZeroEntry, ToEntry |-> ZeroEntry]

\* The accounts every run starts with (createRandomAccount in the tests); id 4
\* is never created.
InitAccounts ==
    (1 :> [ID |-> 1, Owner |-> "ana", Balance |-> 100, Currency |-> "BRL"]) @@
    (2 :> [ID |-> 2, Owner |-> "bob", Balance |-> 50,  Currency |-> "BRL"]) @@
    (3 :> [ID |-> 3, Owner |-> "ana", Balance |-> 70,  Currency |-> "USD"])

\* A fourth account, created only in the runs on two disjoint pairs.
PairAccounts ==
    InitAccounts @@
    (5 :> [ID |-> 5, Owner |-> "bob", Balance |-> 20, Currency |-> "USD"])

\* Ids 6 and up are those of the accounts created through POST /accounts.
AccountIDs == 1..(5 + NumRequests)

\* A call's sql.Tx before BeginTx: no transaction, nothing written.  touched is
\* the set of account rows the transaction has updated, balances their new
\* balances.
NoTx ==
    [state |-> "none", transfers |-> {}, entries |-> {}, touched |-> {},
     balances |-> [a \in AccountIDs |-> 0]]

\* The account row id as call p's transaction sees it: its own uncommitted
\* update if it made one, the committed row otherwise.
TxView(p, id) ==
    IF id \in tx[p].touched
    THEN [accounts[id] EXCEPT !.Balance = tx[p].balances[id]]
    ELSE accounts[id]

----------------------------------------------------------------------------
\* The calls of a run, as a recording store (db/mock) would see them.

\* Call p makes the calls ops, in this order.
Called(p, ops) == calls' = [calls EXCEPT ![p] = @ \o ops]

\* How many times call p called op.
Count(p, op) == Cardinality({i \in 1..Len(calls[p]) : calls[p][i] = op})

----------------------------------------------------------------------------
\* Store.execTx

\* BeginTx(ctx, nil) binds the transaction to the caller's context: the
\* transaction's context is done when the caller's is.
TxCtxDone_Background(p) == FALSE

TxCtxDone(p) == ctxDone[p]

\* if err = callback(queries); err != nil { ... Rollback ... }
EndsWithRollback_Never(e) == FALSE

EndsWithRollback(e) == e # NoErr

\* What execTx returns after a failed callback, given the callback's error and
\* the result of tx.Rollback().
ExecTxResult_OnlyCallback(e, rb) == e

ExecTxResult_OnlyRollback(e, rb) == rb

ExecTxResult_AlwaysWraps(e, rb) ==
    <<"Transaction error: ">> \o e \o <<", Rollback error: ">> \o rb

ExecTxResult(e, rb) ==
    IF rb # NoErr
    THEN <<"Transaction error: ">> \o e \o <<", Rollback error: ">> \o rb
    ELSE e

\* Every query of a transaction first checks its context (database/sql
\* Tx.grabConn): a cancelled context fails the statement before it is sent.
StmtErr(p) == IF ctxDone[p] THEN ErrCanceled ELSE NoErr

\* The locks held by p are released (the transaction ended).
Released(p) == [a \in AccountIDs |-> IF lock[a] = p THEN 0 ELSE lock[a]]

\* The transaction object after it ended in state s: its writes are gone from
\* the transaction (applied by a commit, discarded otherwise).
Ended(s) == [NoTx EXCEPT !.state = s]

\* The callback returns e to execTx (it does not run its statements again).
FailCallback_Retries(p, e) ==
    /\ cbErr' = cbErr
    /\ pc' = [pc EXCEPT ![p] = "createTransfer"]

FailCallback(p, e) ==
    /\ cbErr' = [cbErr EXCEPT ![p] = e]
    /\ pc' = [pc EXCEPT ![p] = "cbReturned"]

\* tx, err := store.db.BeginTx(ctx, nil); if err != nil { return err }; then
\* the callback is invoked.  The position of execTx after BeginTx returned e.
AfterBeginTx_IgnoresError(e) == "createTransfer"

AfterBeginTx(e) == IF e # NoErr THEN "done" ELSE "createTransfer"

\* BeginTx fails at once when the context is already done.
BeginTx(p) ==
    /\ pc[p] = "begin"
    /\ LET e == StmtErr(p) IN
       /\ err' = [err EXCEPT ![p] = e]
       /\ tx' = IF e = NoErr THEN [tx EXCEPT ![p].state = "open"] ELSE tx
       /\ pc' = [pc EXCEPT ![p] = AfterBeginTx(e)]
       /\ Called(p, IF AfterBeginTx(e) = "createTransfer"
                    THEN <<"BeginTx", "callback">>
                    ELSE <<"BeginTx">>)
    /\ UNCHANGED <<accounts, transfers, entries, lock, arg, ctxDone,
                   orig, result, cbErr, rbErr>>
    /\ UNCHANGED apiVars

\* BeginTx fails (no connection): execTx returns the error, the callback is
\* not invoked.
BeginTxFails(p) ==
    /\ pc[p] = "begin"
    /\ err' = [err EXCEPT ![p] = ErrConnDone]
    /\ pc' = [pc EXCEPT ![p] = AfterBeginTx(ErrConnDone)]
    /\ UNCHANGED <<accounts, transfers, entries, lock, arg, ctxDone,
                   tx, orig, result, cbErr,
                   rbErr>>
    /\ UNCHANGED apiVars
    /\ Called(p, IF AfterBeginTx(ErrConnDone) = "createTransfer"
                 THEN <<"BeginTx", "callback">>
                 ELSE <<"BeginTx">>)

\* tx.Rollback() after a failed callback.  A transaction the context watcher
\* already rolled back answers ErrTxDone.
Rollback(p) ==
    /\ pc[p] = "cbReturned"
    /\ EndsWithRollback(cbErr[p])
    /\ LET e == IF tx[p].state = "open" THEN NoErr ELSE ErrTxDone IN
       /\ rbErr' = [rbErr EXCEPT ![p] = e]
       /\ err' = [err EXCEPT ![p] = ExecTxResult(cbErr[p], e)]
       /\ tx' = [tx EXCEPT ![p] = Ended("rolledback")]
       /\ lock' = Released(p)
       /\ pc' = [pc EXCEPT ![p] = "done"]
    /\ UNCHANGED <<accounts, transfers, entries, arg, ctxDone, orig, result,
                   cbErr>>
    /\ UNCHANGED apiVars
    /\ Called(p, <<"Rollback">>)

\* tx.Rollback() fails because the connection is lost; the server aborts the
\* transaction of a lost connection.
RollbackFails(p) ==
    /\ pc[p] = "cbReturned"
    /\ EndsWithRollback(cbErr[p])
    /\ tx[p].state = "open"
    /\ rbErr' = [rbErr EXCEPT ![p] = ErrConnDone]
    /\ err' = [err EXCEPT ![p] = ExecTxResult(cbErr[p], ErrConnDone)]
    /\ tx' = [tx EXCEPT ![p] = Ended("rolledback")]
    /\ lock' = Released(p)
    /\ pc' = [pc EXCEPT ![p] = "done"]
    /\ UNCHANGED <<accounts, transfers, entries, arg, ctxDone, orig, result,
                   cbErr>>
    /\ UNCHANGED apiVars
    /\ Called(p, <<"Rollback">>)

\* return tx.Commit(): execTx returns what Commit returned.
ExecTxCommitResult_Nil(ce) == NoErr

ExecTxCommitResult(ce) == ce

\* The committed accounts table after p's transaction commits.
CommittedAccounts_Unchanged(p) == accounts

CommittedAccounts(p) ==
    [a \in DOMAIN accounts |->
        IF a \in tx[p].touched
        THEN [accounts[a] EXCEPT !.Balance = tx[p].balances[a]]
        ELSE accounts[a]]

\* return tx.Commit().  Commit checks the transaction's context first: when it
\* is done, nothing is committed and the context's error (or ErrTxDone, once
\* the watcher rolled back) is returned.
Commit(p) ==
    /\ pc[p] = "cbReturned"
    /\ ~EndsWithRollback(cbErr[p])
    /\ IF TxCtxDone(p)
       THEN /\ err' = [err EXCEPT ![p] = ExecTxCommitResult(
                        IF tx[p].state = "open" THEN ErrCanceled ELSE ErrTxDone)]
            /\ UNCHANGED <<accounts, transfers, entries, lock, tx>>
       ELSE /\ tx[p].state = "open"
            /\ accounts' = CommittedAccounts(p)
            /\ transfers' = transfers \cup tx[p].transfers
            /\ entries' = entries \cup tx[p].entries
            /\ tx' = [tx EXCEPT ![p] = Ended("committed")]
            /\ lock' = Released(p)
            /\ err' = [err EXCEPT ![p] = ExecTxCommitResult(NoErr)]
    /\ pc' = [pc EXCEPT ![p] = "done"]
    /\ UNCHANGED <<arg, ctxDone, orig, result, cbErr,
                   rbErr>>
    /\ UNCHANGED apiVars
    /\ Called(p, <<"Commit">>)

\* tx.Commit() fails (conflict, connection lost): the commit error is the
\* result and the transaction is aborted.
CommitFails(p) ==
    /\ pc[p] = "cbReturned"
    /\ ~EndsWithRollback(cbErr[p])
    /\ ~TxCtxDone(p)
    /\ tx[p].state = "open"
    /\ err' = [err EXCEPT ![p] = ExecTxCommitResult(ErrConnDone)]
    /\ tx' = [tx EXCEPT ![p] = Ended("rolledback")]
    /\ lock' = Released(p)
    /\ pc' = [pc EXCEPT ![p] = "done"]
    /\ UNCHANGED <<accounts, transfers, entries, arg, ctxDone, orig,
                   result, cbErr,
                   rbErr>>
    /\ UNCHANGED apiVars
    /\ Called(p, <<"Commit">>)

\* database/sql's context watcher (Tx.awaitDone): once the transaction's
\* context is done it rolls the open transaction back.
AwaitDone(p) ==
    /\ TxCtxDone(p)
    /\ tx[p].state = "open"
    /\ tx' = [tx EXCEPT ![p] = Ended("rolledback")]
    /\ lock' = Released(p)
    /\ UNCHANGED <<accounts, transfers, entries, pc, arg, ctxDone,
                   orig, result, cbErr, rbErr, err>>
    /\ UNCHANGED apiVars
    /\ UNCHANGED calls

\* The caller cancels the context (or its deadline passes) while the call runs.
Cancel(p) ==
    /\ pc[p] # "done"
    /\ ~ctxDone[p]
    /\ ctxDone' = [ctxDone EXCEPT ![p] = TRUE]
    /\ UNCHANGED <<accounts, transfers, entries, lock, pc, arg, tx,
                   orig, result, cbErr, rbErr, err>>
    /\ UNCHANGED apiVars
    /\ UNCHANGED calls

----------------------------------------------------------------------------
\* Store.TransferTx: the callback, one action per statement.

\* Amount of the debit entry: -arg.Amount.
FromEntryAmount_Positive(amount) == amount

FromEntryAmount(amount) == -amount

\* Amount of the credit entry: arg.Amount.
ToEntryAmount_Negative(amount) == -amount

ToEntryAmount(amount) == amount

\* originalFromAccount.Balance - arg.Amount
FromBalanceAfter_Adds(balance, amount) == balance + amount

FromBalanceAfter_Floored(balance, amount) ==
    IF balance < amount THEN balance ELSE balance - amount

FromBalanceAfter(balance, amount) == balance - amount

\* originalToAccount.Balance + arg.Amount
ToBalanceAfter_Subtracts(balance, amount) == balance - amount

ToBalanceAfter(balance, amount) == balance + amount

\* The account rows the callback's read of account id locks: it reads with
\* q.GetAccountForUpdate, which locks the row it reads (q.GetAccount locks
\* nothing, a lock of the table would lock every row).
AccountReadLocks_PlainRead(id) == {}

AccountReadLocks_WholeTable(id) == AccountIDs

AccountReadLocks(id) == {id}

\* The statement the callback goes on with after statement s succeeded, in
\* the order of the code; after the last one it returns nil.
NextStatement_LocksFirst(s) ==
    CASE s = "createTransfer"  -> "getFrom"
      [] s = "getFrom"         -> "updateFrom"
      [] s = "updateFrom"      -> "getTo"
      [] s = "getTo"           -> "updateTo"
      [] s = "updateTo"        -> "createFromEntry"
      [] s = "createFromEntry" -> "createToEntry"
      [] s = "createToEntry"   -> "cbReturned"

NextStatement(s) ==
    CASE s = "createTransfer"  -> "createFromEntry"
      [] s = "createFromEntry" -> "createToEntry"
      [] s = "createToEntry"   -> "getFrom"
      [] s = "getFrom"         -> "updateFrom"
      [] s = "updateFrom"      -> "getTo"
      [] s = "getTo"           -> "updateTo"
      [] s = "updateTo"        -> "cbReturned"

\* if err != nil { return err } after a store call: the callback stops at the
\* first failing statement.
CreateTransfer(p) ==
    /\ pc[p] = "createTransfer"
    /\ IF StmtErr(p) # NoErr
       THEN /\ FailCallback(p, StmtErr(p))
            /\ UNCHANGED <<tx, result>>
       ELSE LET row == [ID |-> p, FromAccountID |-> arg[p].FromAccountID,
                        ToAccountID |-> arg[p].ToAccountID,
                        Amount |-> arg[p].Amount] IN
            /\ tx' = [tx EXCEPT ![p].transfers = @ \cup {row}]
            /\ result' = [result EXCEPT ![p].Transfer = row]
            /\ pc' = [pc EXCEPT ![p] = NextStatement("createTransfer")]
            /\ cbErr' = cbErr
    /\ UNCHANGED <<accounts, transfers, entries, lock, arg, ctxDone,
                   orig, err,
                   rbErr>>
    /\ UNCHANGED apiVars
    /\ Called(p, <<"CreateTransfer">>)

CreateFromEntry(p) ==
    /\ pc[p] = "createFromEntry"
    /\ IF StmtErr(p) # NoErr
       THEN /\ FailCallback(p, StmtErr(p))
            /\ UNCHANGED <<tx, result>>
       ELSE LET row == [ID |-> 2 * p - 1, AccountID |-> arg[p].FromAccountID,
                        Amount |-> FromEntryAmount(arg[p].Amount)] IN
            /\ tx' = [tx EXCEPT ![p].entries = @ \cup {row}]
            /\ result' = [result EXCEPT ![p].FromEntry = row]
            /\ pc' = [pc EXCEPT ![p] = NextStatement("createFromEntry")]
            /\ cbErr' = cbErr
    /\ UNCHANGED <<accounts, transfers, entries, lock, arg, ctxDone,
                   orig, err,
                   rbErr>>
    /\ UNCHANGED apiVars
    /\ Called(p, <<"CreateEntry">>)

CreateToEntry(p) ==
    /\ pc[p] = "createToEntry"
    /\ IF StmtErr(p) # NoErr
       THEN /\ FailCallback(p, StmtErr(p))
            /\ UNCHANGED <<tx, result>>
       ELSE LET row == [ID |-> 2 * p, AccountID |-> arg[p].ToAccountID,
                        Amount |-> ToEntryAmount(arg[p].Amount)] IN
            /\ tx' = [tx EXCEPT ![p].entries = @ \cup {row}]
            /\ result' = [result EXCEPT ![p].ToEntry = row]
            /\ pc' = [pc EXCEPT ![p] = NextStatement("createToEntry")]
            /\ cbErr' = cbErr
    /\ UNCHANGED <<accounts, transfers, entries, lock, arg, ctxDone,
                   orig, err,
                   rbErr>>
    /\ UNCHANGED apiVars
    /\ Called(p, <<"CreateEntry">>)

\* The row locks p's pending statement needs: the locking read needs the lock
\* of the row it reads, an UPDATE the lock of the row it writes.
Wanted(p) ==
    CASE pc[p] = "getFrom"    -> AccountReadLocks(arg[p].FromAccountID)
      [] pc[p] = "updateFrom" -> {arg[p].FromAccountID}
      [] pc[p] = "getTo"      -> AccountReadLocks(arg[p].ToAccountID)
      [] pc[p] = "updateTo"   -> {orig[p].to.ID}
      [] OTHER                -> {}

\* p's pending statement waits for a row lock another transaction holds.
Blocked(p) ==
    /\ StmtErr(p) = NoErr
    /\ \E a \in Wanted(p) \cap DOMAIN accounts : lock[a] \notin {0, p}

\* The lock table after p's statement took the locks in ids.
Acquired(p, ids) ==
    [a \in AccountIDs |-> IF a \in ids \cap DOMAIN accounts THEN p ELSE lock[a]]

\* q.GetAccountForUpdate(ctx, id) into originalFromAccount / originalToAccount
\* (field "from" / "to"): not found when the row does not exist, otherwise it
\* waits for the row's lock, takes it and returns the row.
ReadAccount(p, id, field, next) ==
    IF StmtErr(p) # NoErr
    THEN /\ FailCallback(p, StmtErr(p))
         /\ UNCHANGED <<lock, orig>>
    ELSE IF id \notin DOMAIN accounts
    THEN /\ FailCallback(p, ErrNoRows)
         /\ UNCHANGED <<lock, orig>>
    ELSE /\ ~Blocked(p)
         /\ lock' = Acquired(p, AccountReadLocks(id))
         /\ orig' = [orig EXCEPT ![p][field] = TxView(p, id)]
         /\ pc' = [pc EXCEPT ![p] = next]
         /\ cbErr' = cbErr

\* q.UpdateAccount(ctx, {ID: id, Balance: balance}) into result part `part`:
\* UPDATE ... RETURNING *, not found when no row has the id.
WriteAccount(p, id, balance, part, next) ==
    IF StmtErr(p) # NoErr
    THEN /\ FailCallback(p, StmtErr(p))
         /\ UNCHANGED <<lock, tx, result>>
    ELSE IF id \notin DOMAIN accounts
    THEN /\ FailCallback(p, ErrNoRows)
         /\ UNCHANGED <<lock, tx, result>>
    ELSE /\ ~Blocked(p)
         /\ lock' = Acquired(p, {id})
         /\ tx' = [tx EXCEPT ![p].touched = @ \cup {id},
                             ![p].balances[id] = balance]
         /\ result' = [result EXCEPT ![p][part] =
                          [accounts[id] EXCEPT !.Balance = balance]]
         /\ pc' = [pc EXCEPT ![p] = next]
         /\ cbErr' = cbErr

GetFromAccount(p) ==
    /\ pc[p] = "getFrom"
    /\ ReadAccount(p, arg[p].FromAccountID, "from", NextStatement("getFrom"))
    /\ UNCHANGED <<accounts, transfers, entries, arg, ctxDone, tx,
                   result, err,
                   rbErr>>
    /\ UNCHANGED apiVars
    /\ Called(p, <<"GetAccountForUpdate">>)

UpdateFromAccount(p) ==
    /\ pc[p] = "updateFrom"
    /\ WriteAccount(p, arg[p].FromAccountID,
                    FromBalanceAfter(orig[p].from.Balance, arg[p].Amount),
                    "FromAccount", NextStatement("updateFrom"))
    /\ UNCHANGED <<accounts, transfers, entries, arg, ctxDone, orig,
                   err,
                   rbErr>>
    /\ UNCHANGED apiVars
    /\ Called(p, <<"UpdateAccount">>)

GetToAccount(p) ==
    /\ pc[p] = "getTo"
    /\ ReadAccount(p, arg[p].ToAccountID, "to", NextStatement("getTo"))
    /\ UNCHANGED <<accounts, transfers, entries, arg, ctxDone, tx,
                   result, err,
                   rbErr>>
    /\ UNCHANGED apiVars
    /\ Called(p, <<"GetAccountForUpdate">>)

\* The last statement: on success the callback returns nil.
UpdateToAccount(p) ==
    /\ pc[p] = "updateTo"
    /\ WriteAccount(p, orig[p].to.ID,
                    ToBalanceAfter(orig[p].to.Balance, arg[p].Amount),
                    "ToAccount", NextStatement("updateTo"))
    /\ UNCHANGED <<accounts, transfers, entries, arg, ctxDone, orig,
                   err,
                   rbErr>>
    /\ UNCHANGED apiVars
    /\ Called(p, <<"UpdateAccount">>)

\* The store operation of p's pending statement.
StmtOp(p) ==
    CASE pc[p] = "createTransfer" -> "CreateTransfer"
      [] pc[p] \in {"createFromEntry", "createToEntry"} -> "CreateEntry"
      [] pc[p] \in {"getFrom", "getTo"} -> "GetAccountForUpdate"
      [] pc[p] \in {"updateFrom", "updateTo"} -> "UpdateAccount"

\* A statement of the callback fails in the store (connection lost,
\* constraint violated): the callback returns that error.
StatementFails(p) ==
    /\ pc[p] \in {"createTransfer", "createFromEntry", "createToEntry",
                  "getFrom", "updateFrom", "getTo", "updateTo"}
    /\ StmtErr(p) = NoErr
    /\ FailCallback(p, ErrConnDone)
    /\ UNCHANGED <<accounts, transfers, entries, lock, arg, ctxDone,
                   tx, orig, result, err,
                   rbErr>>
    /\ UNCHANGED apiVars
    /\ Called(p, <<StmtOp(p)>>)

\* q waits for a lock that p holds, directly or through at most k other
\* waiting transactions.
RECURSIVE WaitsOn(_, _, _)
WaitsOn(q, p, k) ==
    /\ Blocked(q)
    /\ \E a \in Wanted(q) \cap DOMAIN accounts :
          /\ lock[a] \notin {0, q}
          /\ \/ lock[a] = p
             \/ k > 0 /\ WaitsOn(lock[a], p, k - 1)

\* A circular wait on account row locks that includes p.
InDeadlock(p) == WaitsOn(p, p, Cardinality(DOMAIN pc))

\* PostgreSQL's deadlock detector: a waiting statement of a circular wait is
\* aborted with a deadlock error.
DeadlockDetected(p) ==
    /\ InDeadlock(p)
    /\ FailCallback(p, ErrDeadlock)
    /\ UNCHANGED <<accounts, transfers, entries, lock, arg, ctxDone,
                   tx, orig, result, err,
                   rbErr>>
    /\ UNCHANGED apiVars
    /\ Called(p, <<StmtOp(p)>>)

----------------------------------------------------------------------------
\* Server.createTransfer and Server.validateAccountTransfer.

StatusCreated             == 201
StatusBadRequest          == 400
StatusNotFound            == 404
StatusUnprocessableEntity == 422
StatusInternalServerError == 500

\* The binding tags of createTransferRequest: ids required and at least 1,
\* amount required and greater than 0, currency one of USD, EUR, BRL.
ValidRequest_AnyAmount(r) ==
    /\ r.FromAccountID >= 1
    /\ r.ToAccountID >= 1
    /\ r.Currency \in {"USD", "EUR", "BRL"}

ValidRequest(r) ==
    /\ r.FromAccountID >= 1
    /\ r.ToAccountID >= 1
    /\ r.Amount > 0
    /\ r.Currency \in {"USD", "EUR", "BRL"}

\* if account.Currency != currency
CurrencyMismatch_Never(account, currency) == FALSE

CurrencyMismatch(account, currency) == account.Currency # currency

\* store.GetAccount(ctx, id): the committed row, or not found.
GetAccount(id) ==
    IF id \in DOMAIN accounts
    THEN [account |-> accounts[id], err |-> NoErr]
    ELSE [account |-> ZeroAccount, err |-> ErrNoRows]

\* The status validateAccountTransfer responds with, 0 when it returns true.
ValidateAccountTransfer_Accepts(id, currency) == 0

ValidateAccountTransfer(id, currency) ==
    LET got == GetAccount(id) IN
    IF got.err # NoErr
    THEN IF got.err = ErrNoRows
         THEN StatusNotFound
         ELSE StatusInternalServerError
    ELSE IF CurrencyMismatch(got.account, currency)
    THEN StatusUnprocessableEntity
    ELSE 0

\* The handler responds with status st and returns.
Respond(p, st) ==
    /\ status' = [status EXCEPT ![p] = st]
    /\ pc' = [pc EXCEPT ![p] = "finished"]

\* ctx.BindJSON(&req): a request that fails validation is answered 400.
BindRequest(p) ==
    /\ pc[p] = "bind"
    /\ IF ValidRequest(req[p])
       THEN pc' = [pc EXCEPT ![p] = "validateFrom"] /\ status' = status
       ELSE Respond(p, StatusBadRequest)
    /\ UNCHANGED <<accounts, transfers, entries, lock, arg, ctxDone, tx, orig,
                   result, cbErr, rbErr, err, req, calls>>

\* validateAccountTransfer(ctx, req.FromAccountID, req.Currency)
ValidateFromAccount(p) ==
    /\ pc[p] = "validateFrom"
    /\ LET st == ValidateAccountTransfer(req[p].FromAccountID, req[p].Currency)
       IN  IF st = 0
           THEN pc' = [pc EXCEPT ![p] = "validateTo"] /\ status' = status
           ELSE Respond(p, st)
    /\ Called(p, <<"GetAccount">>)
    /\ UNCHANGED <<accounts, transfers, entries, lock, arg, ctxDone, tx, orig,
                   result, cbErr, rbErr, err, req>>

\* validateAccountTransfer(ctx, req.ToAccountID, req.Currency), then
\* arg := db.TransferTxParams{...} and the call of store.TransferTx(ctx, arg).
ValidateToAccount(p) ==
    /\ pc[p] = "validateTo"
    /\ LET st == ValidateAccountTransfer(req[p].ToAccountID, req[p].Currency)
       IN  IF st = 0
           THEN /\ arg' = [arg EXCEPT ![p] =
                             [FromAccountID |-> req[p].FromAccountID,
                              ToAccountID |-> req[p].ToAccountID,
                              Amount |-> req[p].Amount]]
                /\ pc' = [pc EXCEPT ![p] = "begin"]
                /\ status' = status
                /\ Called(p, <<"GetAccount", "TransferTx">>)
           ELSE /\ Respond(p, st)
                /\ arg' = arg
                /\ Called(p, <<"GetAccount">>)
    /\ UNCHANGED <<accounts, transfers, entries, lock, ctxDone, tx, orig,
                   result, cbErr, rbErr, err, req>>

\* store.GetAccount fails in validateAccountTransfer (connection lost): 500.
GetAccountFails(p) ==
    /\ pc[p] \in {"validateFrom", "validateTo"}
    /\ Respond(p, StatusInternalServerError)
    /\ Called(p, <<"GetAccount">>)
    /\ UNCHANGED <<accounts, transfers, entries, lock, arg, ctxDone, tx, orig,
                   result, cbErr, rbErr, err, req>>

\* TransferTx returned: on an error the handler returns without writing a
\* response (both branches of `if err != nil` only return); otherwise it
\* responds 201 with the result.
TransferResponse(p) ==
    /\ pc[p] = "done"
    /\ IF err[p] # NoErr
       THEN /\ pc' = [pc EXCEPT ![p] = "finished"]
            /\ status' = status
       ELSE Respond(p, StatusCreated)
    /\ UNCHANGED <<accounts, transfers, entries, lock, arg, ctxDone, tx, orig,
                   result, cbErr, rbErr, err, req, calls>>

----------------------------------------------------------------------------
\* Server.setupRoutes, the authentication middleware and the account handlers.

StatusOK           == 200
StatusNoContent    == 204
StatusUnauthorized == 401

\* The routes of the group that uses authMiddleware.  (POST /users and
\* POST /users/login are registered outside the group and are not modelled.)
AuthRoutes ==
    {"createAccount", "listAccounts", "getAccount", "updateAccount",
     "deleteAccount", "createTransfer"}

\* authRoutes := router.Group("/").Use(authMiddleware(server.tokenMaker)): the
\* middleware runs before the handler of every route of the group.
RequiresAuth_TransfersOpen(route) == route \in AuthRoutes \ {"createTransfer"}

RequiresAuth(route) == route \in AuthRoutes

\* The Authorization header of a request: "" when there is none, "malformed"
\* without a type, "oauth" with another type than bearer, "forged" with a
\* token of another key, "expired" with a token past its expiry, "valid" with
\* a token of this server for Username that has not expired.
Tokens == {"", "malformed", "oauth", "forged", "expired", "valid"}

\* The error the middleware answers 401 with, nil for a valid token.
AuthError(r) ==
    CASE r.Token = ""          -> <<"authorization header was not provided">>
      [] r.Token = "malformed" -> <<"invalid authorization header format">>
      [] r.Token = "oauth"     -> <<"invalid authorization type: oauth">>
      [] r.Token = "forged"    -> <<"invalid token">>
      [] r.Token = "expired"   -> <<"token has expired">>
      [] r.Token = "valid"     -> NoErr

\* Where the handler of a route starts.
HandlerEntry(route) == IF route = "createTransfer" THEN "bind" ELSE route

\* The handlers of the account routes leave the state of TransferTx calls and
\* the transfers and entries tables alone.
txVars ==
    <<transfers, entries, lock, arg, ctxDone, tx, orig, result, cbErr, rbErr,
      err, req>>

\* The middleware aborts a request without a valid token with 401; otherwise
\* the handler of the route runs.
AuthMiddleware(p) ==
    /\ pc[p] = "auth"
    /\ IF RequiresAuth(req[p].Route) /\ AuthError(req[p]) # NoErr
       THEN Respond(p, StatusUnauthorized)
       ELSE /\ pc' = [pc EXCEPT ![p] = HandlerEntry(req[p].Route)]
            /\ status' = status
    /\ UNCHANGED <<accounts, calls>>
    /\ UNCHANGED txVars

\* util.RandomCurrency: the supported currencies.
SupportedCurrencies == {"USD", "EUR", "BRL"}

\* The id of the account a createAccount request inserts.
NewAccountID(p) == 5 + p

\* Server.createAccount: the owner is the authenticated user, the balance 0;
\* a second account of the owner in the currency violates the uniqueness
\* constraint on (owner, currency) and is answered 422.
CreateAccountHandler(p) ==
    /\ pc[p] = "createAccount"
    /\ IF req[p].Currency \notin SupportedCurrencies
       THEN /\ Respond(p, StatusBadRequest)
            /\ UNCHANGED <<accounts, calls>>
       ELSE /\ Called(p, <<"CreateAccount">>)
            /\ IF \E a \in DOMAIN accounts :
                     /\ accounts[a].Owner = req[p].Username
                     /\ accounts[a].Currency = req[p].Currency
               THEN /\ Respond(p, StatusUnprocessableEntity)
                    /\ accounts' = accounts
               ELSE /\ Respond(p, StatusCreated)
                    /\ accounts' = accounts @@
                          (NewAccountID(p) :>
                              [ID |-> NewAccountID(p),
                               Owner |-> req[p].Username,
                               Balance |-> 0,
                               Currency |-> req[p].Currency])
    /\ UNCHANGED txVars

\* Server.listAccounts
ListAccountsHandler(p) ==
    /\ pc[p] = "listAccounts"
    /\ IF req[p].Page < 1
       THEN Respond(p, StatusBadRequest) /\ calls' = calls
       ELSE Respond(p, StatusOK) /\ Called(p, <<"ListAccountsByOwner">>)
    /\ UNCHANGED accounts
    /\ UNCHANGED txVars

\* The status a handler answers after store.GetAccount(ctx, id) for the
\* authenticated user, 0 when the account is the user's.
OwnAccountStatus_AnyUser(id, username) ==
    LET got == GetAccount(id) IN
    IF got.err # NoErr
    THEN IF got.err = ErrNoRows
         THEN StatusNotFound
         ELSE StatusInternalServerError
    ELSE 0

OwnAccountStatus(id, username) ==
    LET got == GetAccount(id) IN
    IF got.err # NoErr
    THEN IF got.err = ErrNoRows
         THEN StatusNotFound
         ELSE StatusInternalServerError
    ELSE IF got.account.Owner # username
    THEN StatusUnauthorized
    ELSE 0

\* Server.getAccount
GetAccountHandler(p) ==
    /\ pc[p] = "getAccount"
    /\ IF req[p].ID < 1
       THEN Respond(p, StatusBadRequest) /\ calls' = calls
       ELSE /\ Called(p, <<"GetAccount">>)
            /\ LET st == OwnAccountStatus(req[p].ID, req[p].Username)
               IN  Respond(p, IF st = 0 THEN StatusOK ELSE st)
    /\ UNCHANGED accounts
    /\ UNCHANGED txVars

\* Server.updateAccount up to the owner check.
UpdateAccountRead(p) ==
    /\ pc[p] = "updateAccount"
    /\ IF req[p].ID < 1 \/ req[p].Balance < 1
       THEN Respond(p, StatusBadRequest) /\ calls' = calls
       ELSE /\ Called(p, <<"GetAccount">>)
            /\ LET st == OwnAccountStatus(req[p].ID, req[p].Username)
               IN  IF st = 0
                   THEN /\ pc' = [pc EXCEPT ![p] = "updateAccountWrite"]
                        /\ status' = status
                   ELSE Respond(p, st)
    /\ UNCHANGED accounts
    /\ UNCHANGED txVars

\* The balance store.UpdateAccount writes for the request: req.body.Balance.
UpdateAccountBalance(r) == r.Balance

\* Server.updateAccount: store.UpdateAccount(ctx, {ID, Balance}) outside any
\* transaction.  The UPDATE waits for the row's lock, writes the balance of
\* the request and commits at once; no row (deleted meanwhile) is an error.
UpdateAccountWrite(p) ==
    /\ pc[p] = "updateAccountWrite"
    /\ Called(p, <<"UpdateAccount">>)
    /\ IF req[p].ID \notin DOMAIN accounts
       THEN /\ Respond(p, StatusInternalServerError)
            /\ accounts' = accounts
       ELSE /\ lock[req[p].ID] = 0
            /\ accounts' = [accounts EXCEPT
                              ![req[p].ID].Balance = UpdateAccountBalance(req[p])]
            /\ Respond(p, StatusOK)
    /\ UNCHANGED txVars

\* Server.deleteAccount up to the owner check.
DeleteAccountRead(p) ==
    /\ pc[p] = "deleteAccount"
    /\ IF req[p].ID < 1
       THEN Respond(p, StatusBadRequest) /\ calls' = calls
       ELSE /\ Called(p, <<"GetAccount">>)
            /\ LET st == OwnAccountStatus(req[p].ID, req[p].Username)
               IN  IF st = 0
                   THEN /\ pc' = [pc EXCEPT ![p] = "deleteAccountWrite"]
                        /\ status' = status
                   ELSE Respond(p, st)
    /\ UNCHANGED accounts
    /\ UNCHANGED txVars

\* Server.deleteAccount: store.DeleteAccount(ctx, id).  The DELETE waits for
\* the row's lock; deleting no row is no error.
DeleteAccountWrite(p) ==
    /\ pc[p] = "deleteAccountWrite"
    /\ Called(p, <<"DeleteAccount">>)
    /\ IF req[p].ID \notin DOMAIN accounts
       THEN accounts' = accounts
       ELSE /\ lock[req[p].ID] = 0
            /\ accounts' = [a \in DOMAIN accounts \ {req[p].ID} |-> accounts[a]]
    /\ Respond(p, StatusNoContent)
    /\ UNCHANGED txVars

----------------------------------------------------------------------------
\* Specifications.

\* A run of the calls cs with the arguments a, before any call started.
StartOn(rows, cs, a) ==
    /\ accounts = rows
    /\ transfers = {}
    /\ entries = {}
    /\ lock = [i \in AccountIDs |-> 0]
    /\ pc = [p \in cs |-> "begin"]
    /\ arg = a
    /\ ctxDone = [p \in cs |-> FALSE]
    /\ tx = [p \in cs |-> NoTx]
    /\ orig = [p \in cs |-> [from |-> ZeroAccount, to |-> ZeroAccount]]
    /\ result = [p \in cs |-> ZeroResult]
    /\ cbErr = [p \in cs |-> NoErr]
    /\ rbErr = [p \in cs |-> NoErr]
    /\ err = [p \in cs |-> NoErr]
    /\ req = [p \in cs |-> ZeroRequest]
    /\ status = [p \in cs |-> 0]
    /\ calls = [p \in cs |-> << >>]

Start(cs, a) == StartOn(InitAccounts, cs, a)

\* Amounts of the call under test: 60 exceeds the balance of account 2.
Amounts == {10, 30, 60}

\* Arguments of the call under test: existing accounts 1 and 2, the missing
\* account 4, in every combination.
Args ==
    [FromAccountID : {1, 2, 4}, ToAccountID : {1, 2, 4}, Amount : Amounts]

\* Arguments of the calls running beside it: transfers of 10 between the
\* existing accounts 1 and 2.
Background ==
    {[FromAccountID |-> 1, ToAccountID |-> 2, Amount |-> 10],
     [FromAccountID |-> 2, ToAccountID |-> 1, Amount |-> 10]}

\* The call under test is call 1: its store and its context may fail.
Faulty == {1}

Init ==
    \E a \in Args, b \in [2..NumCalls -> Background] :
        Start(1..NumCalls, [p \in 1..NumCalls |-> IF p = 1 THEN a ELSE b[p]])

Next ==
    \E p \in 1..NumCalls :
        \/ BeginTx(p)
        \/ CreateTransfer(p)
        \/ CreateFromEntry(p)
        \/ CreateToEntry(p)
        \/ GetFromAccount(p)
        \/ UpdateFromAccount(p)
        \/ GetToAccount(p)
        \/ UpdateToAccount(p)
        \/ Commit(p)
        \/ Rollback(p)
        \/ DeadlockDetected(p)
        \/ AwaitDone(p)
        \/ p \in Faulty /\ BeginTxFails(p)
        \/ p \in Faulty /\ StatementFails(p)
        \/ p \in Faulty /\ RollbackFails(p)
        \/ p \in Faulty /\ CommitFails(p)
        \/ p \in Faulty /\ Cancel(p)

Spec == Init /\ [][Next]_vars

\* TestTransferTx: NumTestCalls concurrent transfers of 10 from account 1 to
\* account 2, no failure of the store or the context.
SameArg == [FromAccountID |-> 1, ToAccountID |-> 2, Amount |-> 10]

InitSame == Start(1..NumTestCalls, [p \in 1..NumTestCalls |-> SameArg])

NextSame ==
    \E p \in 1..NumTestCalls :
        \/ BeginTx(p)
        \/ CreateTransfer(p)
        \/ CreateFromEntry(p)
        \/ CreateToEntry(p)
        \/ GetFromAccount(p)
        \/ UpdateFromAccount(p)
        \/ GetToAccount(p)
        \/ UpdateToAccount(p)
        \/ Commit(p)

SpecSame == InitSame /\ [][NextSame]_vars

\* TestTransferTxDeadlock: 2 * NumPairs concurrent transfers of 10 between
\* accounts 1 and 2, every second one in the opposite direction (i%2 == 1 for
\* i = p - 1), no failure of the connection or the context.
AltCalls == 1..(2 * NumPairs)

AltArg(p) ==
    IF (p - 1) % 2 = 1
    THEN [FromAccountID |-> 2, ToAccountID |-> 1, Amount |-> 10]
    ELSE [FromAccountID |-> 1, ToAccountID |-> 2, Amount |-> 10]

InitAlt == Start(AltCalls, [p \in AltCalls |-> AltArg(p)])

NextAlt ==
    \E p \in AltCalls :
        \/ BeginTx(p)
        \/ CreateTransfer(p)
        \/ CreateFromEntry(p)
        \/ CreateToEntry(p)
        \/ GetFromAccount(p)
        \/ UpdateFromAccount(p)
        \/ GetToAccount(p)
        \/ UpdateToAccount(p)
        \/ Commit(p)
        \/ Rollback(p)
        \/ DeadlockDetected(p)

SpecAlt == InitAlt /\ [][NextAlt]_vars

\* Concurrent transfers on two disjoint account pairs: the odd calls transfer
\* between accounts 1 and 2, the even calls between accounts 3 and 5 or from
\* account 2 to account 3 (which shares an account with either pair).
PairArgs(p) ==
    IF p % 2 = 1
    THEN {[FromAccountID |-> 1, ToAccountID |-> 2, Amount |-> 10],
          [FromAccountID |-> 2, ToAccountID |-> 1, Amount |-> 10]}
    ELSE {[FromAccountID |-> 3, ToAccountID |-> 5, Amount |-> 10],
          [FromAccountID |-> 5, ToAccountID |-> 3, Amount |-> 10],
          [FromAccountID |-> 2, ToAccountID |-> 3, Amount |-> 10]}

InitPairs ==
    \E a \in [1..NumPairCalls -> UNION {PairArgs(p) : p \in 1..NumPairCalls}] :
        /\ \A p \in 1..NumPairCalls : a[p] \in PairArgs(p)
        /\ StartOn(PairAccounts, 1..NumPairCalls, a)

NextPairs ==
    \E p \in 1..NumPairCalls :
        \/ BeginTx(p)
        \/ CreateTransfer(p)
        \/ CreateFromEntry(p)
        \/ CreateToEntry(p)
        \/ GetFromAccount(p)
        \/ UpdateFromAccount(p)
        \/ GetToAccount(p)
        \/ UpdateToAccount(p)
        \/ Commit(p)
        \/ Rollback(p)
        \/ DeadlockDetected(p)

SpecPairs == InitPairs /\ [][NextPairs]_vars

\* HTTP requests to POST /transfers: request 1 with any body over the accounts
\* 1, 2 (BRL), 3 (USD) and the missing 4, the others valid transfers of 10
\* between accounts 1 and 2.
Requests ==
    [FromAccountID : {1, 3, 4}, ToAccountID : {2, 3, 4}, Amount : {-10, 0, 10},
     Currency : {"BRL", "USD", "AUD"}]

BackgroundRequests ==
    {[FromAccountID |-> 2, ToAccountID |-> 1, Amount |-> 10, Currency |-> "BRL"]}

StartAt(start, cs, r) ==
    /\ accounts = InitAccounts
    /\ transfers = {}
    /\ entries = {}
    /\ lock = [i \in AccountIDs |-> 0]
    /\ pc = [p \in cs |-> start]
    /\ arg = [p \in cs |-> ZeroArg]
    /\ ctxDone = [p \in cs |-> FALSE]
    /\ tx = [p \in cs |-> NoTx]
    /\ orig = [p \in cs |-> [from |-> ZeroAccount, to |-> ZeroAccount]]
    /\ result = [p \in cs |-> ZeroResult]
    /\ cbErr = [p \in cs |-> NoErr]
    /\ rbErr = [p \in cs |-> NoErr]
    /\ err = [p \in cs |-> NoErr]
    /\ req = r
    /\ status = [p \in cs |-> 0]
    /\ calls = [p \in cs |-> << >>]

StartApi(cs, r) == StartAt("bind", cs, r)

InitApi ==
    \E r \in Requests, b \in [2..NumRequests -> BackgroundRequests] :
        StartApi(1..NumRequests,
                 [p \in 1..NumRequests |-> IF p = 1 THEN r ELSE b[p]])

\* The context of a request is the *gin.Context, which is never cancelled.
NextApi ==
    \E p \in 1..NumRequests :
        \/ BindRequest(p)
        \/ ValidateFromAccount(p)
        \/ ValidateToAccount(p)
        \/ BeginTx(p)
        \/ CreateTransfer(p)
        \/ CreateFromEntry(p)
        \/ CreateToEntry(p)
        \/ GetFromAccount(p)
        \/ UpdateFromAccount(p)
        \/ GetToAccount(p)
        \/ UpdateToAccount(p)
        \/ Commit(p)
        \/ Rollback(p)
        \/ DeadlockDetected(p)
        \/ TransferResponse(p)
        \/ p \in Faulty /\ GetAccountFails(p)
        \/ p \in Faulty /\ BeginTxFails(p)
        \/ p \in Faulty /\ StatementFails(p)
        \/ p \in Faulty /\ RollbackFails(p)
        \/ p \in Faulty /\ CommitFails(p)

SpecApi == InitApi /\ [][NextApi]_vars

\* HTTP requests to the routes of the server.  The parameters a route does not
\* read are zero.
NoParams ==
    [ID |-> 0, Balance |-> 0, Page |-> 0, Currency |-> "", FromAccountID |-> 0,
     ToAccountID |-> 0, Amount |-> 0]

\* The request to route with the Authorization header (token, username) and
\* the parameters params.
Request(route, token, username, params) ==
    [Route |-> route, Token |-> token, Username |-> username,
     ID |-> params.ID, Balance |-> params.Balance, Page |-> params.Page,
     Currency |-> params.Currency, FromAccountID |-> params.FromAccountID,
     ToAccountID |-> params.ToAccountID, Amount |-> params.Amount]

\* The parameters request 1 is sent with, by route: account 1 is ana's,
\* account 4 does not exist, AUD is not supported.
RouteParams(route) ==
    CASE route = "createAccount" ->
            {[NoParams EXCEPT !.Currency = c] : c \in {"BRL", "EUR", "AUD"}}
      [] route = "listAccounts" ->
            {[NoParams EXCEPT !.Page = n] : n \in {0, 1}}
      [] route \in {"getAccount", "deleteAccount"} ->
            {[NoParams EXCEPT !.ID = i] : i \in {0, 1, 4}}
      [] route = "updateAccount" ->
            {[NoParams EXCEPT !.ID = i, !.Balance = b] :
                i \in {0, 1, 4}, b \in {0, 500}}
      [] route = "createTransfer" ->
            {[NoParams EXCEPT !.FromAccountID = 1, !.ToAccountID = 2,
                              !.Amount = n, !.Currency = c] :
                n \in {0, 10}, c \in {"BRL", "USD"}}

\* The Authorization headers request 1 is sent with.
Authorizations ==
    {<<t, "ana">> : t \in Tokens} \cup {<<"valid", "bob">>}

RouteRequests ==
    UNION {{Request(route, a[1], a[2], params) :
               a \in Authorizations, params \in RouteParams(route)} :
           route \in AuthRoutes}

\* The requests beside it: bob transfers 10 from account 2 to account 1.
BackgroundRouteRequests ==
    {Request("createTransfer", "valid", "bob",
             [NoParams EXCEPT !.FromAccountID = 2, !.ToAccountID = 1,
                              !.Amount = 10, !.Currency = "BRL"])}

InitRoutes ==
    \E r \in RouteRequests, b \in [2..NumRequests -> BackgroundRouteRequests] :
        StartAt("auth", 1..NumRequests,
                [p \in 1..NumRequests |-> IF p = 1 THEN r ELSE b[p]])

NextRoutes ==
    \E p \in 1..NumRequests :
        \/ AuthMiddleware(p)
        \/ CreateAccountHandler(p)
        \/ ListAccountsHandler(p)
        \/ GetAccountHandler(p)
        \/ UpdateAccountRead(p)
        \/ UpdateAccountWrite(p)
        \/ DeleteAccountRead(p)
        \/ DeleteAccountWrite(p)
        \/ BindRequest(p)
        \/ ValidateFromAccount(p)
        \/ ValidateToAccount(p)
        \/ BeginTx(p)
        \/ CreateTransfer(p)
        \/ CreateFromEntry(p)
        \/ CreateToEntry(p)
        \/ GetFromAccount(p)
        \/ UpdateFromAccount(p)
        \/ GetToAccount(p)
        \/ UpdateToAccount(p)
        \/ Commit(p)
        \/ Rollback(p)
        \/ DeadlockDetected(p)
        \/ TransferResponse(p)

SpecRoutes == InitRoutes /\ [][NextRoutes]_vars

----------------------------------------------------------------------------
\* Properties.

Running == DOMAIN pc

AllReturned == \A p \in Running : pc[p] = "done"

\* The rows call p inserts.
TransferRowsOf(p) == {t \in transfers : t.ID = p}

EntryRowsOf(p) == {e \in entries : e.ID \in {2 * p - 1, 2 * p}}

\* C1: N concurrent transfers of the same amount from account 1 to account 2:
\* once all calls have returned, account 1 holds its initial balance minus
\* N * amount and account 2 its initial balance plus N * amount.
C1_FinalBalances ==
    AllReturned =>
        /\ accounts[1].Balance
              = InitAccounts[1].Balance - Cardinality(Running) * SameArg.Amount
        /\ accounts[2].Balance
              = InitAccounts[2].Balance + Cardinality(Running) * SameArg.Amount

C1_Witness ==
    /\ AllReturned
    /\ \A p \in Running : err[p] = NoErr /\ arg[p] = SameArg
    /\ Cardinality(Running) >= 3
    /\ accounts[1].Balance < InitAccounts[1].Balance

\* C2: N concurrent transfers alternating direction between accounts 1 and 2:
\* no circular wait on the account row locks occurs, every call returns
\* without error, and once all have returned both balances are the initial
\* ones.
C2_NoDeadlock ==
    /\ \A p \in Running : ~InDeadlock(p)
    /\ \A p \in Running : pc[p] = "done" => err[p] = NoErr
    /\ AllReturned =>
          /\ accounts[1].Balance = InitAccounts[1].Balance
          /\ accounts[2].Balance = InitAccounts[2].Balance

\* Call p's TransferTx succeeds in this step: execTx commits and returns nil.
Succeeds(p) == pc[p] = "cbReturned" /\ pc'[p] = "done" /\ err'[p] = NoErr

\* The step moves the amount from the from account to the to account, and the
\* result reports the new balances and the two entries.
MovesAmount(p) ==
    LET f == arg[p].FromAccountID
        t == arg[p].ToAccountID
        amount == arg[p].Amount
    IN  /\ accounts'[f].Balance = accounts[f].Balance - amount
        /\ accounts'[t].Balance = accounts[t].Balance + amount
        /\ result[p].FromAccount.Balance = accounts'[f].Balance
        /\ result[p].ToAccount.Balance = accounts'[t].Balance
        /\ result[p].FromEntry.Amount = -amount
        /\ result[p].ToEntry.Amount = amount
        /\ result[p].Transfer.Amount = amount
        /\ {result[p].FromEntry, result[p].ToEntry} \subseteq entries'

\* C3 as stated: for every (fromID, toID, amount > 0), a TransferTx that
\* succeeds leaves the from account with its balance before minus amount and
\* the to account with its balance before plus amount, with FromEntry.Amount =
\* -amount and ToEntry.Amount = +amount.
C3_EveryTransferMovesAmount ==
    [][\A p \in DOMAIN pc : Succeeds(p) => MovesAmount(p)]_vars

\* C3 amended: the same for every fromID # toID.  (A transfer from an account
\* to itself succeeds and leaves its balance as it was.)
C3_TransferMovesAmount ==
    [][\A p \in DOMAIN pc :
          Succeeds(p) /\ arg[p].FromAccountID # arg[p].ToAccountID
              => MovesAmount(p)]_vars

\* A = 100, B = 50, amount 30 gives 70, 80, -30, 30, 30.
C3_Witness ==
    /\ pc[1] = "done" /\ err[1] = NoErr
    /\ arg[1] = [FromAccountID |-> 1, ToAccountID |-> 2, Amount |-> 30]
    /\ result[1].FromAccount.Balance = 70
    /\ result[1].ToAccount.Balance = 80
    /\ result[1].FromEntry.Amount = -30
    /\ result[1].ToEntry.Amount = 30
    /\ result[1].Transfer.Amount = 30
    /\ accounts[1].Balance = 70 /\ accounts[2].Balance = 80

\* C4: when a statement of the callback fails, whichever it is, no transfer
\* row, entry row or balance written by that call is ever committed: the
\* call's transaction never commits, and the step that ends the call leaves
\* the committed tables as they are.
C4_FailedUnitWritesNothing ==
    /\ [](\A p \in DOMAIN pc :
             cbErr[p] # NoErr =>
                 /\ tx[p].state # "committed"
                 /\ TransferRowsOf(p) = {}
                 /\ EntryRowsOf(p) = {})
    /\ [][\A p \in DOMAIN pc :
             cbErr[p] # NoErr /\ pc[p] # "done" /\ pc'[p] = "done"
                 => UNCHANGED <<accounts, transfers, entries>>]_vars

\* A call that failed after it had written the from account's balance, beside
\* a call that committed.
C4_Witness ==
    /\ pc[1] = "done"
    /\ cbErr[1] = ErrConnDone
    /\ result[1].FromAccount.ID # 0
    /\ TransferRowsOf(1) = {}
    /\ TransferRowsOf(2) # {}

\* C5: N concurrent transfers of amount a from account 1 to account 2: in every
\* returned result the decrease of FromAccount.Balance from account 1's initial
\* balance equals the increase of ToAccount.Balance from account 2's initial
\* balance and is k * a for a k in 1..N; no two results have the same k, and
\* once all have returned every k in 1..N is in a result.
BalanceDiff(p) == InitAccounts[1].Balance - result[p].FromAccount.Balance

C5_DistinctMultiples ==
    /\ \A p \in Running :
          pc[p] = "done" =>
              /\ BalanceDiff(p)
                    = result[p].ToAccount.Balance - InitAccounts[2].Balance
              /\ \E k \in 1..Cardinality(Running) :
                    BalanceDiff(p) = k * SameArg.Amount
    /\ \A p, q \in Running :
          pc[p] = "done" /\ pc[q] = "done" /\ p # q
              => BalanceDiff(p) # BalanceDiff(q)
    /\ AllReturned =>
          \A k \in 1..Cardinality(Running) :
              \E p \in Running : BalanceDiff(p) = k * SameArg.Amount

C5_Witness ==
    /\ AllReturned
    /\ \A p \in Running : err[p] = NoErr
    /\ BalanceDiff(1) = 3 * SameArg.Amount
    /\ BalanceDiff(2) = 1 * SameArg.Amount
    /\ BalanceDiff(3) = 2 * SameArg.Amount

\* The call names an account that does not exist.
MissingAccount(p) ==
    \/ arg[p].FromAccountID \notin DOMAIN accounts
    \/ arg[p].ToAccountID \notin DOMAIN accounts

\* The error reports a failure of the connection or of the caller's context.
StoreOrContextFailed(e) ==
    \/ Contains(e, ErrConnDone)
    \/ Contains(e, ErrCanceled)
    \/ Contains(e, ErrTxDone)

\* C6: a TransferTx whose from or to account does not exist returns an error,
\* which is the not-found error unless the connection or the context failed
\* first, and no Transfer row and no Entry row of the call is committed.
C6_MissingAccountNotFound ==
    \A p \in Running :
        MissingAccount(p) =>
            /\ TransferRowsOf(p) = {}
            /\ EntryRowsOf(p) = {}
            /\ tx[p].state # "committed"
            /\ pc[p] = "done" =>
                  /\ err[p] # NoErr
                  /\ err[p] = ErrNoRows \/ StoreOrContextFailed(err[p])

\* The to account is missing: the call had inserted its rows and updated the
\* from account before the read of the to account found nothing.
C6_Witness ==
    /\ pc[1] = "done"
    /\ arg[1].FromAccountID = 1 /\ arg[1].ToAccountID = 4
    /\ err[1] = ErrNoRows
    /\ result[1].FromAccount.ID = 1
    /\ TransferRowsOf(1) = {} /\ EntryRowsOf(1) = {}

\* C7: when the callback returns an error and the rollback fails too, the
\* error execTx returns contains the callback's error and the rollback's.
C7_BothErrorsReported ==
    \A p \in Running :
        pc[p] = "done" /\ cbErr[p] # NoErr /\ rbErr[p] # NoErr =>
            /\ Contains(err[p], cbErr[p])
            /\ Contains(err[p], rbErr[p])

C7_Witness ==
    /\ pc[1] = "done"
    /\ cbErr[1] = ErrNoRows
    /\ rbErr[1] = ErrConnDone
    /\ err[1] = <<"Transaction error: ", "sql: no rows in result set",
                  ", Rollback error: ", "sql: connection is already closed">>

\* C8: a call whose context is cancelled while its unit of work is open never
\* commits: none of its rows or balances is committed, and it returns an error.
C8_CancelledNeverCommits ==
    \A p \in Running :
        ctxDone[p] =>
            /\ tx[p].state # "committed"
            /\ TransferRowsOf(p) = {}
            /\ EntryRowsOf(p) = {}
            /\ pc[p] = "done" => err[p] # NoErr

\* The cancellation arrived after the last statement succeeded, before Commit.
C8_Witness ==
    /\ ctxDone[1]
    /\ pc[1] = "done"
    /\ cbErr[1] = NoErr
    /\ result[1].ToAccount.ID # 0
    /\ err[1] = ErrCanceled

\* A part of the result was set by the callback.
Populated(part) == part.ID # 0

\* C9: a returned TransferTx call has a nil error and all five result parts
\* populated, or an error and none of them.
C9_FullResultOrFailure ==
    \A p \in Running :
        pc[p] = "done" =>
            \/ /\ err[p] = NoErr
               /\ Populated(result[p].Transfer)
               /\ Populated(result[p].FromEntry)
               /\ Populated(result[p].ToEntry)
               /\ Populated(result[p].FromAccount)
               /\ Populated(result[p].ToAccount)
            \/ /\ err[p] # NoErr
               /\ result[p] = ZeroResult

\* createTransfer called store.TransferTx for request p.
Invoked(p) == arg[p] # ZeroArg

\* Both accounts of request p exist and one of them is not in the request's
\* currency.
Mismatch(p) ==
    /\ req[p].FromAccountID \in DOMAIN accounts
    /\ req[p].ToAccountID \in DOMAIN accounts
    /\ \/ accounts[req[p].FromAccountID].Currency # req[p].Currency
       \/ accounts[req[p].ToAccountID].Currency # req[p].Currency

\* C10: createTransfer calls TransferTx only for two accounts in the request's
\* currency; a request with an account in another currency is answered 422
\* (500 when the lookup of an account itself fails) without any store mutation:
\* no transaction, no Transfer or Entry row, no balance written.
C10_MismatchNeverReachesTransferTx ==
    \A p \in Running :
        /\ Invoked(p) =>
              /\ req[p].FromAccountID \in DOMAIN accounts
              /\ req[p].ToAccountID \in DOMAIN accounts
              /\ accounts[req[p].FromAccountID].Currency = req[p].Currency
              /\ accounts[req[p].ToAccountID].Currency = req[p].Currency
        /\ Mismatch(p) /\ ValidRequest(req[p]) =>
              /\ ~Invoked(p)
              /\ tx[p] = NoTx
              /\ TransferRowsOf(p) = {} /\ EntryRowsOf(p) = {}
              /\ pc[p] = "finished" =>
                    status[p] \in {StatusUnprocessableEntity,
                                   StatusInternalServerError}

\* The from account is in the request's currency and the to account is not
\* (BRL to USD), beside a request that transferred.
C10_Witness ==
    /\ pc[1] = "finished"
    /\ req[1] = [FromAccountID |-> 1, ToAccountID |-> 3, Amount |-> 10,
                 Currency |-> "BRL"]
    /\ status[1] = StatusUnprocessableEntity
    /\ status[2] = StatusCreated
    /\ Cardinality(transfers) = 1

\* C11: createTransfer answers every failure with an error response: a request
\* that has returned was answered, and when its TransferTx call failed the
\* answer is 404 for the not-found error and 500 for every other error.
C11_EveryFailureAnswered ==
    \A p \in Running :
        pc[p] = "finished" =>
            /\ status[p] # 0
            /\ Invoked(p) /\ err[p] # NoErr =>
                  status[p] = IF err[p] = ErrNoRows
                              THEN StatusNotFound
                              ELSE StatusInternalServerError

\* The callback of call p ran to its end and returned nil.
CallbackSucceeded(p) ==
    /\ pc[p] \in {"cbReturned", "done"}
    /\ cbErr[p] = NoErr
    /\ Populated(result[p].ToAccount)

\* What tx.Commit() can fail with: the connection is lost, or the context of
\* the transaction is done.
CommitErrors == {ErrConnDone, ErrCanceled, ErrTxDone}

\* C12: when the callback succeeded and Commit failed, execTx returns the
\* commit error and none of the call's writes is committed: a returned call
\* whose callback succeeded either committed and returned nil, or returned a
\* commit error with no row of its own in the committed tables, and the step
\* in which it returned the error left the committed tables as they were.
C12_CommitErrorReturned ==
    /\ [](\A p \in DOMAIN pc :
             CallbackSucceeded(p) /\ pc[p] = "done" =>
                 \/ /\ err[p] = NoErr
                    /\ tx[p].state = "committed"
                 \/ /\ err[p] \in CommitErrors
                    /\ tx[p].state # "committed"
                    /\ TransferRowsOf(p) = {}
                    /\ EntryRowsOf(p) = {})
    /\ [][\A p \in DOMAIN pc :
             CallbackSucceeded(p) /\ pc[p] # "done" /\ pc'[p] = "done"
                 /\ err'[p] # NoErr
                 => UNCHANGED <<accounts, transfers, entries>>]_vars

\* Commit failed on a lost connection after every statement of the callback
\* had succeeded, beside a call that committed.
C12_Witness ==
    /\ pc[1] = "done"
    /\ CallbackSucceeded(1)
    /\ err[1] = ErrConnDone
    /\ tx[1].state = "rolledback"
    /\ TransferRowsOf(1) = {}
    /\ TransferRowsOf(2) # {}

\* C13: every execTx invocation calls BeginTx at most once; once it has
\* returned it called BeginTx exactly once and, when BeginTx succeeded, invoked
\* the callback exactly once and called exactly one of Commit and Rollback;
\* when BeginTx failed it invoked no callback, called neither Commit nor
\* Rollback and returned the error of BeginTx.
C13_OneTransactionPerInvocation ==
    \A p \in Running :
        /\ Count(p, "BeginTx") <= 1
        /\ Count(p, "callback") <= 1
        /\ Count(p, "Commit") + Count(p, "Rollback") <= 1
        /\ Count(p, "callback") = 1 <=> tx[p].state # "none"
        /\ pc[p] = "done" =>
              /\ Count(p, "BeginTx") = 1
              /\ IF tx[p].state # "none"
                 THEN /\ Count(p, "callback") = 1
                      /\ Count(p, "Commit") + Count(p, "Rollback") = 1
                 ELSE /\ Count(p, "callback") = 0
                      /\ Count(p, "Commit") + Count(p, "Rollback") = 0
                      /\ err[p] \in {ErrConnDone, ErrCanceled}

\* One call whose BeginTx failed, beside a call that began, ran its callback
\* and committed.
C13_Witness ==
    /\ AllReturned
    /\ calls[1] = <<"BeginTx">>
    /\ err[1] = ErrConnDone
    /\ Count(2, "callback") = 1
    /\ Count(2, "Commit") = 1
    /\ Count(2, "Rollback") = 0
    /\ tx[2].state = "committed"

\* The two entries of a committed transfer row: a debit d on its from account
\* and a credit c on its to account, of its amount.
BalancedEntries(t) ==
    /\ Cardinality(EntryRowsOf(t.ID)) = 2
    /\ \E d, c \in EntryRowsOf(t.ID) :
          /\ d # c
          /\ d.AccountID = t.FromAccountID
          /\ d.Amount = -t.Amount
          /\ c.AccountID = t.ToAccountID
          /\ c.Amount = t.Amount
          /\ d.Amount + c.Amount = 0

\* C14: in every committed state every Transfer row has exactly two Entry rows
\* created with it, one on its from account with -amount and one on its to
\* account with +amount; the entries are twice as many as the transfers and
\* the two amounts of a transfer sum to zero.
C14_TwoEntriesPerTransfer ==
    /\ \A t \in transfers : BalancedEntries(t)
    /\ Cardinality(entries) = 2 * Cardinality(transfers)
    /\ \A e \in entries : \E t \in transfers : e \in EntryRowsOf(t.ID)

\* Two transfers committed, one of them of 30, with their four entries.
C14_Witness ==
    /\ Cardinality(transfers) = 2
    /\ Cardinality(entries) = 4
    /\ \E t \in transfers : t.Amount = 30 /\ t.FromAccountID = 2
    /\ [ID |-> 1, AccountID |-> 2, Amount |-> -30] \in entries
    /\ [ID |-> 2, AccountID |-> 1, Amount |-> 30] \in entries

\* C16: a transfer request with a non-positive amount is rejected before any
\* storage interaction: the handler makes no call of the store (no GetAccount,
\* no TransferTx), no row of the request is created, and the answer is 400.
C16_NonPositiveAmountRejected ==
    \A p \in Running :
        req[p].Amount <= 0 =>
            /\ calls[p] = << >>
            /\ ~Invoked(p)
            /\ tx[p] = NoTx
            /\ TransferRowsOf(p) = {} /\ EntryRowsOf(p) = {}
            /\ pc[p] \in {"bind", "finished"}
            /\ pc[p] = "finished" => status[p] = StatusBadRequest

\* A request for amount 0 and one for a negative amount between two existing
\* accounts of the request's currency are possible inputs; this one was
\* answered 400 beside a request that transferred.
C16_Witness ==
    /\ pc[1] = "finished"
    /\ req[1] = [FromAccountID |-> 1, ToAccountID |-> 2, Amount |-> -10,
                 Currency |-> "BRL"]
    /\ status[1] = StatusBadRequest
    /\ calls[1] = << >>
    /\ status[2] = StatusCreated
    /\ Count(2, "TransferTx") = 1

\* The accounts of call p's transfer.
AccountsOf(p) == {arg[p].FromAccountID, arg[p].ToAccountID}

\* p's pending statement waits for a row lock that q holds.
BlockedOn(p, q) ==
    /\ Blocked(p)
    /\ \E a \in Wanted(p) \cap DOMAIN accounts : lock[a] = q

\* C17: two concurrent TransferTx calls on disjoint account pairs never wait
\* on each other: in no reachable state is a call blocked on a lock held by a
\* call whose accounts are disjoint from its own.
C17_DisjointPairsNeverWait ==
    \A p, q \in Running :
        p # q /\ AccountsOf(p) \cap AccountsOf(q) = {} => ~BlockedOn(p, q)

\* A transfer between accounts 1 and 2 and a transfer between accounts 3 and 5
\* hold their locks at the same time, while a third call waits for one of them.
C17_Witness ==
    /\ AccountsOf(1) = {1, 2} /\ AccountsOf(2) = {3, 5}
    /\ lock[1] = 1 /\ lock[2] = 1
    /\ lock[3] = 2 /\ lock[5] = 2
    /\ BlockedOn(3, 1)

\* The account rows call p's open unit of work has read with
\* GetAccountForUpdate (originalFromAccount, originalToAccount).
LockedBy(p) ==
    IF tx[p].state = "open"
    THEN {orig[p].from.ID, orig[p].to.ID} \ {0}
    ELSE {}

\* C18: at most one open unit of work holds the lock of an account row at a
\* time, and holds it until it commits or rolls back: no two open units have
\* both completed a locking read of the same row, a unit keeps the lock of
\* every row it read, a pending GetAccountForUpdate of a row another unit
\* holds is blocked, and a unit loses a row only in the step that ends it.
C18_RowLockSerializes ==
    /\ [](\A p, q \in DOMAIN pc :
             /\ p # q => LockedBy(p) \cap LockedBy(q) = {}
             /\ \A a \in LockedBy(p) : lock[a] = p
             /\ /\ pc[q] \in {"getFrom", "getTo"}
                /\ StmtErr(q) = NoErr
                /\ p # q
                /\ Wanted(q) \cap LockedBy(p) # {}
                => Blocked(q))
    /\ [][\A p \in DOMAIN pc :
             \A a \in LockedBy(p) :
                 lock'[a] # p => tx'[p].state \in {"committed", "rolledback"}]_vars

\* Call 1 has read and updated both accounts and not yet committed; call 2
\* waits at its locking read of the from account.
C18_Witness ==
    /\ pc[1] = "cbReturned" /\ cbErr[1] = NoErr
    /\ LockedBy(1) = {1, 2}
    /\ pc[2] = "getFrom"
    /\ Blocked(2)
    /\ lock[arg[2].FromAccountID] = 1

\* C19: TransferTx does not retry: within one call the callback runs at most
\* once and issues at most one CreateTransfer, two CreateEntry, two
\* GetAccountForUpdate and two UpdateAccount; once a statement has failed the
\* call issues no further statement, only the Rollback; and a call whose
\* statement was aborted by a deadlock or failed in the store returns that
\* error.
C19_NoInternalRetry ==
    /\ [](\A p \in DOMAIN pc :
             /\ Count(p, "callback") <= 1
             /\ Count(p, "CreateTransfer") <= 1
             /\ Count(p, "CreateEntry") <= 2
             /\ Count(p, "GetAccountForUpdate") <= 2
             /\ Count(p, "UpdateAccount") <= 2
             /\ pc[p] = "done" /\ cbErr[p] \in {ErrDeadlock, ErrConnDone} =>
                   /\ Contains(err[p], cbErr[p])
                   /\ tx[p].state # "committed")
    /\ [][\A p \in DOMAIN pc :
             cbErr[p] # NoErr /\ calls'[p] # calls[p]
                 => calls'[p] = Append(calls[p], "Rollback")]_vars

\* The call was chosen by the deadlock detector at its read of the to account
\* and returned the deadlock error after one pass through its statements.
C19_Witness ==
    /\ pc[1] = "done"
    /\ err[1] = ErrDeadlock
    /\ calls[1] = <<"BeginTx", "callback", "CreateTransfer", "CreateEntry",
                    "CreateEntry", "GetAccountForUpdate", "UpdateAccount",
                    "GetAccountForUpdate", "Rollback">>
    /\ pc[2] = "done" /\ err[2] = NoErr

\* C15: an account's balance is changed only by account creation (its initial
\* balance) and by TransferTx's balance adjustment: every step that changes
\* the committed balance of an account is the commit of a TransferTx on that
\* account, and no other operation reachable through the API writes a balance.
C15_OnlyTransfersWriteBalances ==
    [][\A a \in DOMAIN accounts \cap DOMAIN accounts' :
          accounts'[a].Balance # accounts[a].Balance =>
              \E p \in DOMAIN pc : Succeeds(p) /\ a \in AccountsOf(p)]_vars

\* C20: every account and transfer route answers a request without a valid,
\* unexpired bearer token with 401 and invokes no store operation for it: the
\* request makes no call, opens no transaction and changes no row.
C20_UnauthenticatedRejected ==
    /\ [](\A p \in DOMAIN pc :
             req[p].Route \in AuthRoutes /\ req[p].Token # "valid" =>
                 /\ calls[p] = << >>
                 /\ tx[p] = NoTx
                 /\ pc[p] \in {"auth", "finished"}
                 /\ pc[p] = "finished" => status[p] = StatusUnauthorized)
    /\ [][\A p \in DOMAIN pc :
             req[p].Token # "valid" /\ pc'[p] # pc[p]
                 => UNCHANGED <<accounts, transfers, entries>>]_vars

\* A PUT /accounts/1 with an expired token of the account's owner was answered
\* 401 and left the balance alone, beside an authenticated transfer.
C20_Witness ==
    /\ pc[1] = "finished"
    /\ req[1].Route = "updateAccount"
    /\ req[1].Token = "expired"
    /\ req[1].ID = 1 /\ req[1].Balance = 500
    /\ status[1] = StatusUnauthorized
    /\ calls[1] = << >>
    /\ status[2] = StatusCreated
    /\ accounts[1].Balance = 110

\* Request p is an authenticated, well-formed getAccount, updateAccount or
\* deleteAccount for an existing account of another user.
ForeignAccount(p) ==
    /\ req[p].Route \in {"getAccount", "updateAccount", "deleteAccount"}
    /\ req[p].Token = "valid"
    /\ req[p].Route = "updateAccount" => req[p].Balance >= 1
    /\ req[p].ID \in DOMAIN accounts
    /\ accounts[req[p].ID].Owner # req[p].Username

\* C21: getAccount, updateAccount and deleteAccount act on an account only for
\* its owner: a request of another authenticated user is answered 401 (never
\* 200 or 204, so the account is not returned) after the one GetAccount, calls
\* neither UpdateAccount nor DeleteAccount, and leaves the row as it was.
C21_OnlyOwnerActs ==
    /\ [](\A p \in DOMAIN pc :
             ForeignAccount(p) =>
                 /\ Count(p, "UpdateAccount") = 0
                 /\ Count(p, "DeleteAccount") = 0
                 /\ pc[p] \notin {"updateAccountWrite", "deleteAccountWrite"}
                 /\ pc[p] = "finished" =>
                       /\ status[p] = StatusUnauthorized
                       /\ calls[p] = <<"GetAccount">>)
    /\ [][\A p \in DOMAIN pc :
             ForeignAccount(p) /\ pc'[p] # pc[p]
                 => UNCHANGED <<accounts, transfers, entries>>]_vars

\* bob's PUT /accounts/1 for ana's account was answered 401 after the lookup,
\* beside a transfer that committed.
C21_Witness ==
    /\ pc[1] = "finished"
    /\ req[1].Route = "updateAccount"
    /\ req[1].Token = "valid" /\ req[1].Username = "bob"
    /\ req[1].ID = 1 /\ req[1].Balance = 500
    /\ status[1] = StatusUnauthorized
    /\ calls[1] = <<"GetAccount">>
    /\ accounts[1].Balance = 110

\* s is a prefix of t.
Prefix(s, t) == Len(s) <= Len(t) /\ SubSeq(t, 1, Len(s)) = s

\* The status validateAccountTransfer answers for an account of the request
\* when the lookup itself works: 404 for a missing account, 422 for another
\* currency, 0 for none.
FromStatus(p) ==
    IF req[p].FromAccountID \notin DOMAIN accounts THEN StatusNotFound
    ELSE IF accounts[req[p].FromAccountID].Currency # req[p].Currency
    THEN StatusUnprocessableEntity
    ELSE 0

ToStatus(p) ==
    IF req[p].ToAccountID \notin DOMAIN accounts THEN StatusNotFound
    ELSE IF accounts[req[p].ToAccountID].Currency # req[p].Currency
    THEN StatusUnprocessableEntity
    ELSE 0

\* C22: createTransfer validates in a fixed order and stops at the first
\* failure.  The calls of a request are a prefix of GetAccount, GetAccount,
\* TransferTx followed by the calls of the transfer.  When the from account is
\* missing or in another currency, or its lookup fails, the request ends after
\* one GetAccount with the status of the from account (500 for a failed
\* lookup) and TransferTx is never called; when the to account is, it ends
\* after two with the status of the to account.  TransferTx is called at most
\* once, with the request's from, to and amount, after both accounts passed.
C22_ValidationOrder ==
    \A p \in Running :
        /\ \/ Prefix(calls[p], <<"GetAccount", "GetAccount", "TransferTx">>)
           \/ Prefix(<<"GetAccount", "GetAccount", "TransferTx">>, calls[p])
        /\ Count(p, "TransferTx") <= 1
        /\ Invoked(p) <=> Count(p, "TransferTx") = 1
        /\ Invoked(p) =>
              /\ FromStatus(p) = 0 /\ ToStatus(p) = 0
              /\ arg[p] = [FromAccountID |-> req[p].FromAccountID,
                           ToAccountID |-> req[p].ToAccountID,
                           Amount |-> req[p].Amount]
        /\ ValidRequest(req[p]) /\ FromStatus(p) # 0 =>
              /\ Prefix(calls[p], <<"GetAccount">>)
              /\ pc[p] = "finished" =>
                    /\ calls[p] = <<"GetAccount">>
                    /\ status[p] \in {FromStatus(p), StatusInternalServerError}
        /\ ValidRequest(req[p]) /\ FromStatus(p) = 0 /\ ToStatus(p) # 0 =>
              /\ Prefix(calls[p], <<"GetAccount", "GetAccount">>)
              /\ pc[p] = "finished" /\ Len(calls[p]) = 2 =>
                    status[p] \in {ToStatus(p), StatusInternalServerError}
        /\ pc[p] = "finished" /\ ~Invoked(p) /\ ValidRequest(req[p]) =>
              status[p] # 0

\* The from account is missing and the to account is in another currency: the
\* answer is the 404 of the from account after a single lookup, beside a
\* request that passed both lookups and called TransferTx.
C22_Witness ==
    /\ pc[1] = "finished"
    /\ req[1] = [FromAccountID |-> 4, ToAccountID |-> 3, Amount |-> 10,
                 Currency |-> "BRL"]
    /\ status[1] = StatusNotFound
    /\ calls[1] = <<"GetAccount">>
    /\ Prefix(<<"GetAccount", "GetAccount", "TransferTx", "BeginTx">>, calls[2])
    /\ arg[2] = [FromAccountID |-> 2, ToAccountID |-> 1, Amount |-> 10]

\* The lower of the two account ids of call p.
LowerAccount(p) ==
    IF arg[p].FromAccountID <= arg[p].ToAccountID
    THEN arg[p].FromAccountID
    ELSE arg[p].ToAccountID

\* C23: every TransferTx takes its two account row locks in ascending order of
\* account id, whichever is the from and whichever the to: a call that holds
\* the lock of only one of its two accounts holds that of the lower id, and so
\* no two calls each hold one of two accounts while waiting for the other.
C23_AscendingLockOrder ==
    \A p \in Running :
        /\ Cardinality(LockedBy(p)) = 1 => LockedBy(p) = {LowerAccount(p)}
        /\ \A q \in Running \ {p} : ~(BlockedOn(p, q) /\ BlockedOn(q, p))

\* C24: the balance TransferTx writes to an account is the balance its own
\* GetAccountForUpdate of that account returned, minus the amount for the from
\* account and plus the amount for the to account; and while the unit is open
\* the committed balance of an account it has read is still the one it read
\* (for the to account of a transfer to the same account: the one it wrote),
\* so no written balance comes from a value that was stale when written.
C24_WritesFromLockedRead ==
    \A p \in Running :
        /\ Populated(result[p].FromAccount) =>
              /\ orig[p].from.ID = arg[p].FromAccountID
              /\ result[p].FromAccount.Balance
                    = orig[p].from.Balance - arg[p].Amount
        /\ Populated(result[p].ToAccount) =>
              /\ orig[p].to.ID = arg[p].ToAccountID
              /\ result[p].ToAccount.Balance
                    = orig[p].to.Balance + arg[p].Amount
        /\ tx[p].state = "open" /\ orig[p].from.ID # 0 =>
              orig[p].from.Balance = accounts[orig[p].from.ID].Balance
        /\ tx[p].state = "open" /\ orig[p].to.ID # 0 =>
              orig[p].to.Balance =
                  IF orig[p].to.ID = orig[p].from.ID
                  THEN orig[p].from.Balance - arg[p].Amount
                  ELSE accounts[orig[p].to.ID].Balance

\* Call 2 committed a transfer of 10 from account 1 before call 1 read it:
\* call 1 read 90 under the lock and wrote 90 - 30, and 80 + 30 for account 2.
C24_Witness ==
    /\ pc[1] = "cbReturned" /\ tx[1].state = "open"
    /\ arg[1] = [FromAccountID |-> 1, ToAccountID |-> 2, Amount |-> 30]
    /\ tx[2].state = "committed"
    /\ orig[1].from.Balance = 90
    /\ result[1].FromAccount.Balance = 60
    /\ orig[1].to.Balance = 60
    /\ result[1].ToAccount.Balance = 90

\* The store operations of one TransferTx unit, in the order of the code.
StatementOrder ==
    <<"CreateTransfer", "CreateEntry", "CreateEntry", "GetAccountForUpdate",
      "UpdateAccount", "GetAccountForUpdate", "UpdateAccount">>

IsStatement(op) ==
    op \in {"CreateTransfer", "CreateEntry", "GetAccountForUpdate",
            "UpdateAccount"}

\* The store operations call p issued inside its unit, in order.
Statements(p) == SelectSeq(calls[p], IsStatement)

\* C25: inside one TransferTx unit the store operations happen in a fixed
\* order: the transfer row first, then the debit entry of the from account,
\* then the credit entry of the to account, and only with both entries
\* created is an account locked or a balance written; once a statement has
\* failed, the later ones are not issued.
C25_FixedStatementOrder ==
    \A p \in Running :
        /\ Prefix(Statements(p), StatementOrder)
        /\ Populated(result[p].FromEntry) =>
              /\ Populated(result[p].Transfer)
              /\ result[p].FromEntry.AccountID = arg[p].FromAccountID
              /\ result[p].FromEntry.Amount = -arg[p].Amount
        /\ Populated(result[p].ToEntry) =>
              /\ Populated(result[p].FromEntry)
              /\ result[p].ToEntry.AccountID = arg[p].ToAccountID
              /\ result[p].ToEntry.Amount = arg[p].Amount
        /\ \/ orig[p].from.ID # 0
           \/ orig[p].to.ID # 0
           \/ Populated(result[p].FromAccount)
           \/ Populated(result[p].ToAccount)
           \/ \E a \in AccountIDs : lock[a] = p
           => Populated(result[p].FromEntry) /\ Populated(result[p].ToEntry)
        /\ cbErr[p] # NoErr =>
              Len(Statements(p)) =
                  1 + Cardinality({part \in {"Transfer", "FromEntry", "ToEntry",
                                             "FromAccount", "ToAccount"} :
                                      Populated(result[p][part])})
                    + Cardinality({f \in {"from", "to"} : orig[p][f].ID # 0})

\* The update of the from account failed: the transfer row, the two entries
\* and the locking read before it were issued, the two statements after it
\* were not.
C25_Witness ==
    /\ pc[1] = "done"
    /\ cbErr[1] = ErrConnDone
    /\ Statements(1) = <<"CreateTransfer", "CreateEntry", "CreateEntry",
                         "GetAccountForUpdate", "UpdateAccount">>
    /\ orig[1].from.ID = 1 /\ orig[1].to.ID = 0
    /\ ~Populated(result[1].FromAccount)

\* C26: when the callback fails and the rollback succeeds, execTx and
\* TransferTx return exactly the callback's error, unchanged and unwrapped: a
\* not-found of a store step is returned as that same not-found error.
C26_CallbackErrorUnwrapped ==
    \A p \in Running :
        /\ pc[p] = "done"
        /\ cbErr[p] # NoErr
        /\ Count(p, "Rollback") = 1
        /\ rbErr[p] = NoErr
        => /\ err[p] = cbErr[p]
           /\ cbErr[p] = ErrNoRows => err[p] = ErrNoRows

\* The from account does not exist: its locking read found no row, the
\* rollback succeeded and the call returned sql.ErrNoRows itself.
C26_Witness ==
    /\ pc[1] = "done"
    /\ arg[1].FromAccountID = 4 /\ arg[1].ToAccountID = 2
    /\ cbErr[1] = ErrNoRows
    /\ rbErr[1] = NoErr
    /\ Count(1, "Rollback") = 1
    /\ err[1] = ErrNoRows

\* Call p transfers from an existing account to the same account.
SelfTransfer(p) ==
    /\ arg[p].FromAccountID = arg[p].ToAccountID
    /\ arg[p].FromAccountID \in DOMAIN accounts

\* C27: a TransferTx from an account to itself never waits for the lock it
\* holds, returns FromAccount.Balance = the balance it read minus amount and
\* ToAccount.Balance = the balance it read, commits one transfer row and the
\* two entries -amount and +amount on the account, and leaves the committed
\* balance of the account as it was.
C27_SelfTransfer ==
    /\ [](\A p \in DOMAIN pc :
             SelfTransfer(p) =>
                 /\ lock[arg[p].FromAccountID] = p => ~Blocked(p)
                 /\ Populated(result[p].FromAccount) =>
                       result[p].FromAccount.Balance
                           = orig[p].from.Balance - arg[p].Amount
                 /\ Populated(result[p].ToAccount) =>
                       result[p].ToAccount.Balance = orig[p].from.Balance
                 /\ tx[p].state = "committed" =>
                       /\ TransferRowsOf(p) =
                             {[ID |-> p,
                               FromAccountID |-> arg[p].FromAccountID,
                               ToAccountID |-> arg[p].FromAccountID,
                               Amount |-> arg[p].Amount]}
                       /\ EntryRowsOf(p) =
                             {[ID |-> 2 * p - 1,
                               AccountID |-> arg[p].FromAccountID,
                               Amount |-> -arg[p].Amount],
                              [ID |-> 2 * p,
                               AccountID |-> arg[p].FromAccountID,
                               Amount |-> arg[p].Amount]})
    /\ [][\A p \in DOMAIN pc :
             SelfTransfer(p) /\ Succeeds(p) =>
                 /\ accounts' = accounts
                 /\ Cardinality(transfers') = Cardinality(transfers) + 1
                 /\ Cardinality(entries') = Cardinality(entries) + 2]_vars

\* A transfer of 30 from account 1 (balance 100) to account 1 committed: it
\* returned 70 and 100 and the balance is still 100.
C27_Witness ==
    /\ pc[1] = "done" /\ err[1] = NoErr
    /\ arg[1] = [FromAccountID |-> 1, ToAccountID |-> 1, Amount |-> 30]
    /\ tx[1].state = "committed"
    /\ result[1].FromAccount.Balance = 70
    /\ result[1].ToAccount.Balance = 100
    /\ accounts[1].Balance = 100
    /\ Cardinality(EntryRowsOf(1)) = 2

\* The sum of the amounts of the entry rows in es.
RECURSIVE SumOfAmounts(_)
SumOfAmounts(es) ==
    IF es = {}
    THEN 0
    ELSE LET e == CHOOSE x \in es : TRUE
         IN  e.Amount + SumOfAmounts(es \ {e})

\* The committed entry rows of account a.
EntriesOf(a) == {e \in entries : e.AccountID = a}

\* C28: in every committed state reached by TransferTx calls that succeed,
\* fail or are cancelled, the balance of every account is its initial balance
\* plus the sum of the amounts of the committed entries of the account.
C28_BalanceIsSumOfEntries ==
    \A a \in DOMAIN accounts :
        accounts[a].Balance
            = InitAccounts[a].Balance + SumOfAmounts(EntriesOf(a))

\* A transfer of 30 from account 1 to account 2 and one of 10 back both
\* committed: account 1 holds 100 - 30 + 10 and has those two entries.
C28_Witness ==
    /\ AllReturned
    /\ Cardinality(EntriesOf(1)) = 2
    /\ SumOfAmounts(EntriesOf(1)) = -20
    /\ accounts[1].Balance = 80
    /\ accounts[2].Balance = 70

\* The sum of the balances of the account rows in ids.
RECURSIVE SumOfBalances(_)
SumOfBalances(ids) ==
    IF ids = {}
    THEN 0
    ELSE LET a == CHOOSE x \in ids : TRUE
         IN  accounts[a].Balance + SumOfBalances(ids \ {a})

\* The money in the accounts the run started with.
InitialTotal ==
    InitAccounts[1].Balance + InitAccounts[2].Balance + InitAccounts[3].Balance

\* C29: the sum of the balances of all accounts is the same in every committed
\* state reached by TransferTx calls, whether each commits or rolls back.
C29_MoneyConserved ==
    /\ DOMAIN accounts = DOMAIN InitAccounts
    /\ SumOfBalances(DOMAIN accounts) = InitialTotal

\* Call 1 moved 30 from account 1 to account 2 and committed, call 2 was rolled
\* back: the balances changed, their sum did not.
C29_Witness ==
    /\ AllReturned
    /\ tx[1].state = "committed" /\ arg[1].Amount = 30
    /\ tx[2].state = "rolledback"
    /\ accounts[1].Balance = 70
    /\ accounts[2].Balance = 80
    /\ SumOfBalances(DOMAIN accounts) = 220

\* The call's from account holds less than the amount the call transfers.
Overdraws(p) == orig[p].from.ID # 0 /\ orig[p].from.Balance < arg[p].Amount

\* The error is one the store, the context or the lock manager reported.
ReportedFailure(e) ==
    \/ StoreOrContextFailed(e)
    \/ Contains(e, ErrDeadlock)
    \/ Contains(e, ErrNoRows)

\* C30: TransferTx makes no sufficient-funds check. Its update of the from
\* account writes the locked balance minus the amount for every amount, also
\* when that is negative; the statement fails, and the call returns an error,
\* only for a failure of the store, the context or the lock manager, never
\* for lack of funds.
C30_NoFundsCheck ==
    /\ [][\A p \in 1..NumCalls :
            /\ pc[p] = "updateFrom" /\ pc'[p] = NextStatement("updateFrom") =>
                  result'[p].FromAccount.Balance
                      = orig[p].from.Balance - arg[p].Amount
            /\ pc[p] = "updateFrom" /\ pc'[p] = "cbReturned" =>
                  ReportedFailure(cbErr'[p])]_vars
    /\ [](\A p \in 1..NumCalls :
            /\ pc[p] = "done" /\ err[p] # NoErr => ReportedFailure(err[p])
            /\ Populated(result[p].FromAccount) /\ Overdraws(p) =>
                  result[p].FromAccount.Balance < 0)

\* Call 1 transferred 60 out of account 2, which held 50, and committed: it
\* read 50 under the lock, wrote -10, and -10 is the committed balance.
C30_Witness ==
    /\ pc[1] = "done" /\ err[1] = NoErr
    /\ tx[1].state = "committed"
    /\ arg[1] = [FromAccountID |-> 2, ToAccountID |-> 1, Amount |-> 60]
    /\ Overdraws(1)
    /\ orig[1].from.Balance = 50
    /\ result[1].FromAccount.Balance = -10
    /\ accounts[2].Balance = -10

====
